---- MODULE Spec2Model ----
(***************************************************************************)
(* Trace-context propagation through object metadata.                      *)
(*                                                                         *)
(*   pkg/util/httptrace        WithObject, IsStatusOnly, the hex form      *)
(*                             (spanContextString / stringToSpanContext)   *)
(*                             and the binary form (decodeSpanContext)     *)
(*   endpoints/filters/traces  traceutil: the annotation slot              *)
(*                             (EncodeContextIntoObject,                   *)
(*                             RemoveSpanContextFromObject,                *)
(*                             spanContextFromObject)                      *)
(*                                                                         *)
(* A Go string is a sequence of one-character strings, a byte slice is a   *)
(* sequence of numbers in 0..255.  A call that panics yields an outcome    *)
(* whose field panic is TRUE.                                              *)
(***************************************************************************)
EXTENDS Integers, Sequences, FiniteSets, TLC

VARIABLES managedFields, obv, annotations, lastOp, ret,
          adapter, config, o, files, es, tracing,
          requests, queue, exported

vars == <<managedFields, obv, annotations, lastOp, ret,
          adapter, config, o, files, es, tracing,
          requests, queue, exported>>

\* the state of the passive span adapter and of the exporter configuration
adapterVars == <<adapter>>

configVars == <<config, o, files, es, tracing>>

\* the state of the request handler, of the span batcher and of the collector
tracerVars == <<requests, queue, exported>>

\* the state of the traced object
objectVars == <<managedFields, obv, annotations, lastOp>>

(***************************************************************************)
(* Bounds of the model.                                                    *)
(***************************************************************************)
\* longest list of managed-field records of an object
MaxRecords == 2
\* largest generation a writer stamps and a caller has observed
MaxGen == 2
\* largest trace-flags value of a span context handed to the codecs
MaxFlags == 2

\* the number of recording calls made on one span
MaxCalls == 2

\* the number of times the options are applied
MaxApplies == 2

\* the number of requests the handler serves
MaxRequests == 2

(***************************************************************************)
(* Characters, hexadecimal and decimal text.                               *)
(***************************************************************************)
HexDigits ==
    << "0", "1", "2", "3", "4", "5", "6", "7", "8", "9", "a", "b", "c", "d", "e", "f" >>

DecDigits ==
    << "0", "1", "2", "3", "4", "5", "6", "7", "8", "9" >>

Range(s) == { s[i] : i \in DOMAIN s }

HexVal(c) == (CHOOSE i \in 1..16 : HexDigits[i] = c) - 1

DecVal(c) == (CHOOSE i \in 1..10 : DecDigits[i] = c) - 1

\* hex.EncodeToString, as used by ID.String and SpanID.String
HexEncode(b) ==
    [ i \in 1..(2 * Len(b)) |->
        IF i % 2 = 1 THEN HexDigits[(b[(i + 1) \div 2] \div 16) + 1]
                     ELSE HexDigits[(b[i \div 2] % 16) + 1] ]

\* hex.DecodeString on a text of lower-case hex digits of even length
HexDecode(h) ==
    [ i \in 1..(Len(h) \div 2) |-> 16 * HexVal(h[2 * i - 1]) + HexVal(h[2 * i]) ]

ZeroBytes(n) == [ i \in 1..n |-> 0 ]

\* apitrace.IDFromHex / SpanIDFromHex with the error dropped: a text of the
\* wrong length or with a character outside 0-9a-f leaves the zero value
IDFromHex(h, n) ==
    IF Len(h) /= 2 * n THEN ZeroBytes(n)
    ELSE IF \E i \in 1..Len(h) : h[i] \notin Range(HexDigits) THEN ZeroBytes(n)
    ELSE HexDecode(h)

RECURSIVE FormatNat(_)
\* the decimal digits of a natural number (fmt %d)
FormatNat(n) ==
    IF n < 10 THEN <<DecDigits[n + 1]>>
    ELSE FormatNat(n \div 10) \o <<DecDigits[(n % 10) + 1]>>

\* fmt %02d on a byte: at least two digits, zero padded
Format02d(n) == IF n < 10 THEN <<"0">> \o FormatNat(n) ELSE FormatNat(n)

RECURSIVE DigitsValue(_)
DigitsValue(s) ==
    IF Len(s) = 0 THEN 0
    ELSE 10 * DigitsValue(SubSeq(s, 1, Len(s) - 1)) + DecVal(s[Len(s)])

\* strconv.ParseInt(s, 10, 64) with the error dropped: an optional sign and
\* decimal digits; a syntax error leaves 0.  (Values beyond 64 bits do not
\* occur within the bounds.)
ParseInt(s) ==
    LET signed == Len(s) > 0 /\ s[1] \in {"+", "-"}
        digits == IF signed THEN SubSeq(s, 2, Len(s)) ELSE s
    IN  IF Len(digits) = 0 \/ \E i \in 1..Len(digits) : digits[i] \notin Range(DecDigits)
        THEN 0
        ELSE IF signed /\ s[1] = "-" THEN 0 - DigitsValue(digits) ELSE DigitsValue(digits)

RECURSIVE LastSegment(_)
\* s[len(s)-1] for s := strings.Split(text, "-"): the text after the last
\* hyphen, the whole text when it has none
LastSegment(text) ==
    IF Len(text) = 0 THEN <<>>
    ELSE IF text[Len(text)] = "-" THEN <<>>
    ELSE LastSegment(SubSeq(text, 1, Len(text) - 1)) \o <<text[Len(text)]>>

(***************************************************************************)
(* Span contexts.                                                          *)
(***************************************************************************)
SpanContext(t, s, f) == [TraceID |-> t, SpanID |-> s, TraceFlags |-> f]

EmptySpanContext == SpanContext(ZeroBytes(16), ZeroBytes(8), 0)

\* the fixed context WithObject falls back to
SentinelText ==
    << "6", "6", "1", "7", "8", "5", "6", "f", "2", "7", "7", "e", "3", "1", "7", "f",
       "a", "7", "a", "a", "b", "4", "c", "6", "6", "e", "0", "0", "4", "1", "c", "9",
       "-", "2", "a", "a", "8", "3", "2", "5", "0", "2", "2", "d", "9", "9", "d", "4",
       "0", "-", "0" >>

SentinelContext ==
    SpanContext(HexDecode(SubSeq(SentinelText, 1, 32)),
                HexDecode(SubSeq(SentinelText, 34, 49)), 0)

(***************************************************************************)
(* The hex-hyphenated form (httptrace).                                    *)
(***************************************************************************)
\* fmt.Sprintf("%s-%s-%02d", TraceID, SpanID, TraceFlags)
spanContextString(spanContext) ==
    HexEncode(spanContext.TraceID) \o <<"-">> \o HexEncode(spanContext.SpanID)
        \o <<"-">> \o Format02d(spanContext.TraceFlags)

\* stringToSpanContext that reads the trace flags from the third segment
stringToSpanContextWithFlags(sc) ==
    IF Len(sc) < 49
    THEN [panic |-> TRUE, spanContext |-> EmptySpanContext]
    ELSE [panic |-> FALSE,
          spanContext |-> SpanContext(IDFromHex(SubSeq(sc, 1, 32), 16),
                                      IDFromHex(SubSeq(sc, 34, 49), 8),
                                      ParseInt(LastSegment(sc)) % 256)]

\* sc[0:32] and sc[33:49]: slicing beyond the length of the text panics;
\* the returned context carries the two identifiers only
stringToSpanContext(sc) ==
    IF Len(sc) < 49
    THEN [panic |-> TRUE, spanContext |-> EmptySpanContext]
    ELSE [panic |-> FALSE,
          spanContext |-> SpanContext(IDFromHex(SubSeq(sc, 1, 32), 16),
                                      IDFromHex(SubSeq(sc, 34, 49), 8), 0)]

(***************************************************************************)
(* Managed-field records.                                                  *)
(*                                                                         *)
(* FieldsV1 is a nil pointer (isNil), or raw bytes that either do not      *)
(* unmarshal into a JSON object (valid = FALSE) or do, with the given      *)
(* top-level keys.  TraceContext is the text of the per-writer slot and    *)
(* Generation the generation the writer stamped.                           *)
(***************************************************************************)
FieldsNil == [isNil |-> TRUE, valid |-> FALSE, keys |-> {}]

FieldsMalformed == [isNil |-> FALSE, valid |-> FALSE, keys |-> {}]

Fields(keys) == [isNil |-> FALSE, valid |-> TRUE, keys |-> keys]

ManagedFieldsEntry(fields, text, generation) ==
    [FieldsV1 |-> fields, TraceContext |-> text, Generation |-> generation]

IsStatusOnly(field) ==
    IF field.FieldsV1.isNil THEN [panic |-> FALSE, value |-> TRUE]
    ELSE IF ~field.FieldsV1.valid THEN [panic |-> TRUE, value |-> FALSE]
    ELSE IF \E s \in field.FieldsV1.keys : s = "f:metadata" \/ s = "f:spec"
         THEN [panic |-> FALSE, value |-> FALSE]
         ELSE [panic |-> FALSE, value |-> "f:status" \in field.FieldsV1.keys]

RECURSIVE WithObjectScanKeepingStatusOnly(_, _, _, _)
\* the loop without the IsStatusOnly test that skips a record
WithObjectScanKeepingStatusOnly(mfs, observed, i, acc) ==
    IF i > Len(mfs) THEN acc
    ELSE LET mf == mfs[i]
             so == IsStatusOnly(mf)
             gen == ParseInt(LastSegment(mf.TraceContext))
         IN  IF so.panic THEN [acc EXCEPT !.panic = TRUE]
             ELSE IF gen > observed
                  THEN WithObjectScanKeepingStatusOnly(mfs, observed, i + 1,
                           [acc EXCEPT !.acontext = Append(@, i)])
             ELSE IF gen = observed
                  THEN WithObjectScanKeepingStatusOnly(mfs, observed, i + 1,
                           [acc EXCEPT !.bcontext = Append(@, i)])
             ELSE WithObjectScanKeepingStatusOnly(mfs, observed, i + 1, acc)

RECURSIVE WithObjectScan(_, _, _, _)
\* the loop of WithObject over the records from index i on; acc.acontext and
\* acc.bcontext hold the indices of the records whose TraceContext the code
\* appends to acontext and bcontext
WithObjectScan(mfs, observed, i, acc) ==
    IF i > Len(mfs) THEN acc
    ELSE LET mf == mfs[i]
             so == IsStatusOnly(mf)
             gen == ParseInt(LastSegment(mf.TraceContext))
         IN  IF so.panic THEN [acc EXCEPT !.panic = TRUE]
             ELSE IF so.value THEN WithObjectScan(mfs, observed, i + 1, acc)
             ELSE IF gen > observed
                  THEN WithObjectScan(mfs, observed, i + 1,
                           [acc EXCEPT !.acontext = Append(@, i)])
             ELSE IF gen = observed
                  THEN WithObjectScan(mfs, observed, i + 1,
                           [acc EXCEPT !.bcontext = Append(@, i)])
             ELSE WithObjectScan(mfs, observed, i + 1, acc)

\* WithObject(ctx, meta, obv): from is the index of the record whose text was
\* chosen, 0 for the sentinel
WithObject(mfs, observed) ==
    LET acc == WithObjectScan(mfs, observed, 1,
                   [panic |-> FALSE, acontext |-> <<>>, bcontext |-> <<>>])
        from == IF Len(acc.acontext) > 0 THEN acc.acontext[1]
                ELSE IF Len(acc.bcontext) > 0 THEN acc.bcontext[1]
                ELSE 0
        latestContext == IF from = 0 THEN SentinelText ELSE mfs[from].TraceContext
        span == stringToSpanContext(latestContext)
    IN  IF acc.panic \/ span.panic
        THEN [panic |-> TRUE, spanContext |-> EmptySpanContext, from |-> 0]
        ELSE [panic |-> FALSE, spanContext |-> span.spanContext, from |-> from]

(***************************************************************************)
(* Base64 (encoding/base64, StdEncoding: padded, not strict).              *)
(***************************************************************************)
Base64Alphabet ==
    << "A", "B", "C", "D", "E", "F", "G", "H", "I", "J", "K", "L", "M", "N", "O", "P",
       "Q", "R", "S", "T", "U", "V", "W", "X", "Y", "Z", "a", "b", "c", "d", "e", "f",
       "g", "h", "i", "j", "k", "l", "m", "n", "o", "p", "q", "r", "s", "t", "u", "v",
       "w", "x", "y", "z", "0", "1", "2", "3", "4", "5", "6", "7", "8", "9", "+", "/" >>

Base64Val(c) == (CHOOSE i \in 1..64 : Base64Alphabet[i] = c) - 1

RECURSIVE Pow(_, _)
Pow(b, e) == IF e = 0 THEN 1 ELSE b * Pow(b, e - 1)

\* base64.StdEncoding.EncodeToString
Base64Encode(b) ==
    LET n == Len(b)
        byte(i) == IF i <= n THEN b[i] ELSE 0
        char(k) ==
            LET q == (k - 1) \div 4
                j == (k - 1) % 4
                v == byte(3 * q + 1) * 65536 + byte(3 * q + 2) * 256 + byte(3 * q + 3)
                avail == n - 3 * q
            IN  IF j <= avail
                THEN Base64Alphabet[((v \div Pow(64, 3 - j)) % 64) + 1]
                ELSE "="
    IN  [ k \in 1..(4 * ((n + 2) \div 3)) |-> char(k) ]

\* base64.StdEncoding.Decode: line breaks are skipped; the rest must be whole
\* quanta of four alphabet characters, the last one possibly ending in one
\* or two padding characters
Base64Decode(text) ==
    LET src == SelectSeq(text, LAMBDA c : c \notin {"\n", "\r"})
        n == Len(src)
        pad == IF n >= 1 /\ src[n] = "="
               THEN (IF n >= 2 /\ src[n - 1] = "=" THEN 2 ELSE 1)
               ELSE 0
        sextet(i) == IF i <= n - pad THEN Base64Val(src[i]) ELSE 0
        byte(m) ==
            LET q == (m - 1) \div 3
                j == (m - 1) % 3
                v == sextet(4 * q + 1) * 262144 + sextet(4 * q + 2) * 4096
                         + sextet(4 * q + 3) * 64 + sextet(4 * q + 4)
            IN  (v \div Pow(256, 2 - j)) % 256
    IN  IF n % 4 /= 0 \/ \E i \in 1..(n - pad) : src[i] \notin Range(Base64Alphabet)
        THEN [err |-> "CorruptInputError", bytes |-> <<>>]
        ELSE [err |-> "nil", bytes |-> [ m \in 1..((n \div 4) * 3 - pad) |-> byte(m) ]]

(***************************************************************************)
(* The binary form of httptrace: the span-context structure read with      *)
(* encoding/binary, 16 + 8 + 1 bytes.                                      *)
(***************************************************************************)
SpanContextSize == 25

\* the bytes binary.Read expects for a span context
SpanContextBytes(spanContext) ==
    spanContext.TraceID \o spanContext.SpanID \o <<spanContext.TraceFlags>>

\* decodeSpanContext with the error of binary.Read dropped: a short payload
\* leaves the zero context and no error
decodeSpanContextDroppingReadError(encodedSpanContext) ==
    LET decoded == Base64Decode(encodedSpanContext)
        byteList == decoded.bytes
    IN  IF decoded.err /= "nil"
        THEN [panic |-> FALSE, spanContext |-> EmptySpanContext, err |-> decoded.err]
        ELSE IF Len(byteList) < 25
        THEN [panic |-> FALSE, spanContext |-> EmptySpanContext, err |-> "nil"]
        ELSE [panic |-> FALSE,
              spanContext |-> SpanContext(SubSeq(byteList, 1, 16),
                                          SubSeq(byteList, 17, 24), byteList[25]),
              err |-> "nil"]

\* decodeSpanContext decode encodedSpanContext to spanContext
decodeSpanContext(encodedSpanContext) ==
    LET decoded == Base64Decode(encodedSpanContext)
        byteList == decoded.bytes
    IN  IF decoded.err /= "nil"
        THEN [panic |-> FALSE, spanContext |-> EmptySpanContext, err |-> decoded.err]
        ELSE IF Len(byteList) = 0
        THEN [panic |-> FALSE, spanContext |-> EmptySpanContext, err |-> "EOF"]
        ELSE IF Len(byteList) < SpanContextSize
        THEN [panic |-> FALSE, spanContext |-> EmptySpanContext, err |-> "ErrUnexpectedEOF"]
        ELSE [panic |-> FALSE,
              spanContext |-> SpanContext(SubSeq(byteList, 1, 16),
                                          SubSeq(byteList, 17, 24), byteList[25]),
              err |-> "nil"]

(***************************************************************************)
(* The annotation slot of traceutil: the OpenCensus binary form, base64.   *)
(***************************************************************************)
TraceAnnotationKey == "trace.kubernetes.io/context"

\* propagation.Binary: nothing for the zero context, else version 0, field 0
\* and the trace ID, field 1 and the span ID, field 2 and the options byte
Binary(sc) ==
    IF sc = EmptySpanContext THEN <<>>
    ELSE <<0, 0>> \o sc.TraceID \o <<1>> \o sc.SpanID \o <<2, sc.TraceFlags % 256>>

\* propagation.FromBinary
FromBinary(b) ==
    IF Len(b) = 0 \/ b[1] /= 0 THEN [spanContext |-> EmptySpanContext, ok |-> FALSE]
    ELSE IF ~(Len(b) - 1 >= 17 /\ b[2] = 0)
    THEN [spanContext |-> EmptySpanContext, ok |-> FALSE]
    ELSE LET traceID == SubSeq(b, 3, 18)
             hasSpan == Len(b) - 18 >= 9 /\ b[19] = 1
             spanID == IF hasSpan THEN SubSeq(b, 20, 27) ELSE ZeroBytes(8)
             rest == IF hasSpan THEN SubSeq(b, 28, Len(b)) ELSE SubSeq(b, 19, Len(b))
             options == IF Len(rest) >= 2 /\ rest[1] = 2 THEN rest[2] ELSE 0
         IN  [spanContext |-> SpanContext(traceID, spanID, options), ok |-> TRUE]

\* an annotation map: Go's nil map (isNil) or a map from keys to texts
NilAnnotations == [isNil |-> TRUE, m |-> [k \in {} |-> <<>>]]

Annotations(m) == [isNil |-> FALSE, m |-> m]

Put(m, key, value) == [k \in (DOMAIN m) \cup {key} |-> IF k = key THEN value ELSE m[k]]

Delete(m, key) == [k \in (DOMAIN m) \ {key} |-> m[k]]

\* encodeSpanContextIntoObject that sets a map holding the trace annotation
\* alone
encodeSpanContextIntoObjectFreshMap(ctx, tracedResourceAnnotations) ==
    LET rawContextBytes == Binary(ctx)
        encodedContext == Base64Encode(rawContextBytes)
    IN  IF tracedResourceAnnotations.isNil
        THEN [panic |-> TRUE, annotations |-> tracedResourceAnnotations]
        ELSE [panic |-> FALSE,
              annotations |-> Annotations([k \in {TraceAnnotationKey} |-> encodedContext])]

\* encodeSpanContextIntoObject: assigning to an entry of a nil map panics
encodeSpanContextIntoObject(ctx, tracedResourceAnnotations) ==
    LET rawContextBytes == Binary(ctx)
        encodedContext == Base64Encode(rawContextBytes)
    IN  IF tracedResourceAnnotations.isNil
        THEN [panic |-> TRUE, annotations |-> tracedResourceAnnotations]
        ELSE [panic |-> FALSE,
              annotations |-> Annotations(Put(tracedResourceAnnotations.m,
                                              TraceAnnotationKey, encodedContext))]

\* EncodeContextIntoObject: ctx carries a span (hasSpan) or none
EncodeContextIntoObject(ctx, tracedResourceAnnotations) ==
    IF ctx.hasSpan
    THEN encodeSpanContextIntoObject(ctx.spanContext, tracedResourceAnnotations)
    ELSE [panic |-> FALSE, annotations |-> tracedResourceAnnotations]

\* RemoveSpanContextFromObject allocating a map when the object has none
RemoveSpanContextFromObjectAllocating(tracedResourceAnnotations) ==
    [panic |-> FALSE,
     annotations |-> [isNil |-> FALSE,
                      m |-> Delete(tracedResourceAnnotations.m, TraceAnnotationKey)]]

\* RemoveSpanContextFromObject: delete is a no-op on a nil map, and the map
\* read is the map set
RemoveSpanContextFromObject(tracedResourceAnnotations) ==
    [panic |-> FALSE,
     annotations |-> [isNil |-> tracedResourceAnnotations.isNil,
                      m |-> Delete(tracedResourceAnnotations.m, TraceAnnotationKey)]]

\* spanContextFromObject
spanContextFromObject(tracedResourceAnnotations) ==
    IF TraceAnnotationKey \notin DOMAIN tracedResourceAnnotations.m
    THEN [spanContext |-> EmptySpanContext, ok |-> FALSE]
    ELSE LET decoded == Base64Decode(tracedResourceAnnotations.m[TraceAnnotationKey])
         IN  IF decoded.err /= "nil"
             THEN [spanContext |-> EmptySpanContext, ok |-> FALSE]
             ELSE FromBinary(decoded.bytes)

(***************************************************************************)
(* The annotation readers of httptrace.                                    *)
(***************************************************************************)
spanContextAnnotationKey == "trace.kubernetes.io/context"

\* annotations[key]: the zero value, the empty text, for a missing key or a
\* nil map
Lookup(m, key) == IF key \in DOMAIN m THEN m[key] ELSE <<>>

\* apitrace.ContextWithSpan(ctx, span)
ContextWithSpan(ctx, spanContext) == [hasSpan |-> TRUE, spanContext |-> spanContext]

\* spanContextFromAnnotations get span context from annotations
spanContextFromAnnotations(ctx, meta) ==
    LET decoded == decodeSpanContext(Lookup(meta.m, spanContextAnnotationKey))
    IN  IF decoded.err /= "nil" THEN ctx
        ELSE ContextWithSpan(ctx, decoded.spanContext)

\* StringSpanContextFromObject
StringSpanContextFromObject(meta) ==
    LET decoded == decodeSpanContext(Lookup(meta.m, spanContextAnnotationKey))
    IN  IF decoded.err /= "nil" THEN <<>>
        ELSE spanContextString(decoded.spanContext)

(***************************************************************************)
(* WithObject on the whole object.                                         *)
(***************************************************************************)
\* what WithObject is handed as meta: the records, the generation counter,
\* the annotations and the name of an object
Object(mfs, generation, annots, name) ==
    [managedFields |-> mfs, generation |-> generation,
     annotations |-> annots, name |-> name]

\* WithObject ending in the return that the code leaves commented out: the
\* context comes from the annotations when they hold one
WithObjectFromAnnotations(meta, observed) ==
    LET r == WithObject(meta.managedFields, observed)
        fromAnnotations ==
            spanContextFromAnnotations(ContextWithSpan(<<>>, r.spanContext),
                                       meta.annotations)
    IN  [panic |-> r.panic,
         spanContext |-> IF r.panic THEN r.spanContext
                         ELSE fromAnnotations.spanContext,
         logged |-> IF r.panic THEN <<>> ELSE <<meta.name, observed, meta.generation>>,
         meta |-> meta]

\* WithObject(ctx, meta, obv): GetManagedFields() feeds the selection; the
\* name and the generation of the object are read for the log line only;
\* meta is the object as the call leaves it
WithObjectOn(meta, observed) ==
    LET r == WithObject(meta.managedFields, observed)
    IN  [panic |-> r.panic,
         spanContext |-> r.spanContext,
         logged |-> IF r.panic THEN <<>> ELSE <<meta.name, observed, meta.generation>>,
         meta |-> meta]

(***************************************************************************)
(* The passive span adapter: httpTraceSpan holds a span context; its       *)
(* methods have value receivers and empty bodies.                          *)
(***************************************************************************)
httpTraceSpan(spanContext) == [spanContext |-> spanContext]

\* each recording method returns at once and leaves the span as it is
End(span) == span

AddEvent(span) == span

AddEventWithTimestamp(span) == span

RecordError(span) == span

SetStatus(span) == span

SetName(span) == span

SetAttributes(span) == span

SetAttribute(span) == span

\* IsRecording that reports a span with a valid context as recording
IsRecordingWhenValid(span) == span.spanContext /= EmptySpanContext

\* IsRecording returns false
IsRecording(span) == FALSE

\* SpanContext returns span.spanContext
SpanContextOf(span) == span.spanContext

(***************************************************************************)
(* The exporter configuration (package opentelemetry).                     *)
(*                                                                         *)
(* A pointer is a record with isNil and the value v it points to.          *)
(***************************************************************************)
defaultPort == 55680

\* "localhost:55680"
defaultURL ==
    << "l", "o", "c", "a", "l", "h", "o", "s", "t", ":", "5", "5", "6", "8", "0" >>

NilURL == [isNil |-> TRUE, v |-> <<>>]

URLPtr(u) == [isNil |-> FALSE, v |-> u]

NilPort == [isNil |-> TRUE, v |-> 0]

PortPtr(p) == [isNil |-> FALSE, v |-> p]

NilService == [isNil |-> TRUE, Name |-> <<>>, Namespace |-> <<>>, Port |-> NilPort]

ServiceReference(name, namespace, port) ==
    [isNil |-> FALSE, Name |-> name, Namespace |-> namespace, Port |-> port]

NilConfig == [isNil |-> TRUE, URL |-> NilURL, Service |-> NilService]

OpenTelemetryClientConfiguration(url, service) ==
    [isNil |-> FALSE, URL |-> url, Service |-> service]

Letters == { Base64Alphabet[i] : i \in 1..52 }

HexChars == Range(HexDigits) \cup {"A", "B", "C", "D", "E", "F"}

\* the scheme getScheme finds: the text before the first colon when it
\* starts with a letter and holds only letters, digits, "+", "-" and "."
SchemeEnd(u) ==
    IF \E i \in DOMAIN u : u[i] = ":"
    THEN LET c == CHOOSE i \in DOMAIN u : u[i] = ":" /\ \A j \in 1..(i - 1) : u[j] /= ":"
         IN  IF /\ c > 1
                /\ u[1] \in Letters
                /\ \A j \in 1..(c - 1) :
                      u[j] \in Letters \cup Range(DecDigits) \cup {"+", "-", "."}
             THEN c ELSE 0
    ELSE 0

\* url.Parse reports an error (control character, missing protocol scheme,
\* colon in the first path segment of a URL without scheme, invalid escape);
\* a URL with a scheme and no leading slash is opaque and is not looked into.
\* Queries and fragments do not occur in the inputs.
URLParseFails(u) ==
    LET c == SchemeEnd(u)
        rest == SubSeq(u, c + 1, Len(u))
        firstSegment ==
            IF \E i \in DOMAIN rest : rest[i] = "/"
            THEN SubSeq(rest, 1, (CHOOSE i \in DOMAIN rest :
                                     rest[i] = "/" /\ \A j \in 1..(i - 1) : rest[j] /= "/") - 1)
            ELSE rest
    IN  \/ \E i \in DOMAIN u : u[i] \in {"\t", "\n", "\r"}
        \/ Len(u) > 0 /\ u[1] = ":"
        \/ /\ ~(c > 0 /\ (Len(rest) = 0 \/ rest[1] /= "/"))
           /\ \/ c = 0 /\ Len(rest) > 0 /\ rest[1] /= "/" /\ ":" \in Range(firstSegment)
              \/ \E i \in DOMAIN rest :
                    /\ rest[i] = "%"
                    /\ ~(i + 2 <= Len(rest) /\ rest[i + 1] \in HexChars
                                            /\ rest[i + 2] \in HexChars)

validateURL(u) ==
    IF URLParseFails(u) THEN <<"url: Invalid value: Unable to parse URL">> ELSE <<>>

\* validateService without the namespace check
validateServiceNameOnly(service) ==
    IF Len(service.Name) = 0 THEN <<"service.name: Required value">> ELSE <<>>

validateService(service) ==
    (IF Len(service.Name) = 0 THEN <<"service.name: Required value">> ELSE <<>>)
    \o (IF Len(service.Namespace) = 0 THEN <<"service.namespace: Required value">> ELSE <<>>)

\* ValidateOpenTelemetryConfiguration without the test that Service and URL
\* are not both set
ValidateOpenTelemetryConfigurationAllowingBoth(cfg) ==
    IF cfg.isNil THEN <<>>
    ELSE (IF ~cfg.Service.isNil THEN validateService(cfg.Service) ELSE <<>>)
         \o (IF ~cfg.URL.isNil THEN validateURL(cfg.URL.v) ELSE <<>>)

\* ValidateOpenTelemetryConfiguration validates the opentelemetry configuration
ValidateOpenTelemetryConfiguration(cfg) ==
    IF cfg.isNil THEN <<>>
    ELSE (IF ~cfg.Service.isNil /\ ~cfg.URL.isNil
          THEN <<"service: Invalid value: Service and URL cannot both be set">>
          ELSE <<>>)
         \o (IF ~cfg.Service.isNil THEN validateService(cfg.Service) ELSE <<>>)
         \o (IF ~cfg.URL.isNil THEN validateURL(cfg.URL.v) ELSE <<>>)

\* DefaultOpenTelemetryConfiguration defaulting the URL whenever it is unset
DefaultOpenTelemetryConfigurationAlwaysURL(cfg) ==
    IF cfg.isNil THEN cfg
    ELSE LET withPort ==
                 IF ~cfg.Service.isNil /\ cfg.Service.Port.isNil
                 THEN [cfg EXCEPT !.Service.Port = PortPtr(defaultPort)]
                 ELSE cfg
         IN  IF withPort.URL.isNil
             THEN [withPort EXCEPT !.URL = URLPtr(defaultURL)]
             ELSE withPort

\* DefaultOpenTelemetryConfiguration defaults unset fields
DefaultOpenTelemetryConfiguration(cfg) ==
    IF cfg.isNil THEN cfg
    ELSE LET withPort ==
                 IF ~cfg.Service.isNil /\ cfg.Service.Port.isNil
                 THEN [cfg EXCEPT !.Service.Port = PortPtr(defaultPort)]
                 ELSE cfg
         IN  IF withPort.Service.isNil /\ withPort.URL.isNil
             THEN [withPort EXCEPT !.URL = URLPtr(defaultURL)]
             ELSE withPort

(***************************************************************************)
(* OpenTelemetryOptions and the initialisation of the tracer provider.     *)
(*                                                                         *)
(* An error is the sequence of its messages, outermost first; the nil      *)
(* error is the empty sequence.  A file system maps the paths that exist   *)
(* to their documents.                                                     *)
(***************************************************************************)
NoError == <<>>

NilOptions == [isNil |-> TRUE, ConfigFile |-> ""]

OpenTelemetryOptions(configFile) == [isNil |-> FALSE, ConfigFile |-> configFile]

\* a document: readable says that ioutil.ReadFile succeeds, wellFormed that
\* yaml.Unmarshal does; an empty file is a well-formed document of kind ""
Document(readable, wellFormed, kind, url, service) ==
    [readable |-> readable, wellFormed |-> wellFormed, Kind |-> kind,
     URL |-> url, Service |-> service]

\* ReadOpenTelemetryConfiguration that does not look at the declared kind
ReadOpenTelemetryConfigurationAnyKind(configFilePath, fs) ==
    IF configFilePath = ""
    THEN [config |-> NilConfig, err |-> <<"opentelemetry config file was empty">>]
    ELSE IF configFilePath \notin DOMAIN fs \/ ~fs[configFilePath].readable
    THEN [config |-> NilConfig, err |-> <<"unable to read opentelemetry configuration">>]
    ELSE IF ~fs[configFilePath].wellFormed
    THEN [config |-> NilConfig, err |-> <<"yaml: unmarshal error">>]
    ELSE [config |-> OpenTelemetryClientConfiguration(fs[configFilePath].URL,
                                                      fs[configFilePath].Service),
          err |-> NoError]

\* ReadOpenTelemetryConfiguration reads the opentelemetry configuration from
\* a file
ReadOpenTelemetryConfiguration(configFilePath, fs) ==
    IF configFilePath = ""
    THEN [config |-> NilConfig, err |-> <<"opentelemetry config file was empty">>]
    ELSE IF configFilePath \notin DOMAIN fs \/ ~fs[configFilePath].readable
    THEN [config |-> NilConfig, err |-> <<"unable to read opentelemetry configuration">>]
    ELSE IF ~fs[configFilePath].wellFormed
    THEN [config |-> NilConfig, err |-> <<"yaml: unmarshal error">>]
    ELSE IF fs[configFilePath].Kind /= "OpenTelemetryClientConfiguration"
    THEN [config |-> NilConfig, err |-> <<"invalid service configuration object">>]
    ELSE [config |-> OpenTelemetryClientConfiguration(fs[configFilePath].URL,
                                                      fs[configFilePath].Service),
          err |-> NoError]

\* Validate verifies flags passed to OpenTelemetryOptions
OptionsValidate(opt, fs) ==
    IF opt.isNil \/ opt.ConfigFile = "" THEN <<>>
    ELSE IF opt.ConfigFile \notin DOMAIN fs
    THEN <<"opentelemetry-config-file does not exist">>
    ELSE <<>>

\* the egress selector: a nil pointer, or the networks whose Lookup fails
NilEgressSelector == [isNil |-> TRUE, failing |-> {}]

EgressSelector(failing) == [isNil |-> FALSE, failing |-> failing]

EgressLookup(selector, network) ==
    IF network \in selector.failing
    THEN [dialer |-> "none", err |-> <<"no egress dialer for network">>]
    ELSE [dialer |-> network, err |-> NoError]

WithAddress(addr) == [option |-> "WithAddress", value |-> addr]

WithGRPCDialOption(dialer) == [option |-> "WithGRPCDialOption", value |-> <<dialer>>]

WithInsecure == [option |-> "WithInsecure", value |-> <<>>]

\* fmt.Sprintf("%s.%s:%d", ...)
ServiceAddress(name, namespace, port) ==
    name \o <<".">> \o namespace \o <<":">> \o FormatNat(port)

\* InitTraces with a provider that samples every span
InitTracesAlwaysSample(service, opts) ==
    [service |-> service,
     opts    |-> opts \o <<WithInsecure>>,
     sampler |-> "AlwaysSample",
     processor |-> "Batcher"]

\* InitTraces: the OTLP exporter built from the options and WithInsecure,
\* behind a batcher, with the sampler ParentBased(NeverSample())
InitTraces(service, opts) ==
    [service |-> service,
     opts    |-> opts \o <<WithInsecure>>,
     sampler |-> "ParentBased(NeverSample)",
     processor |-> "Batcher"]

\* ExporterOptions that dials every service on the default port
ExporterOptionsDefaultPortOnly(npConfig, selector) ==
    LET urlLookup == EgressLookup(selector, "ControlPlane")
        urlOpts ==
            IF npConfig.URL.isNil THEN <<>>
            ELSE <<WithAddress(npConfig.URL.v)>>
                 \o (IF selector.isNil THEN <<>>
                     ELSE <<WithGRPCDialOption(urlLookup.dialer)>>)
        svcLookup == EgressLookup(selector, "Cluster")
        svcOpts ==
            IF npConfig.Service.isNil THEN <<>>
            ELSE <<WithAddress(ServiceAddress(npConfig.Service.Name,
                                              npConfig.Service.Namespace, 55680))>>
                 \o (IF selector.isNil THEN <<>>
                     ELSE <<WithGRPCDialOption(svcLookup.dialer)>>)
    IN  IF ~npConfig.URL.isNil /\ ~selector.isNil /\ urlLookup.err /= NoError
        THEN [opts |-> <<>>, err |-> urlLookup.err]
        ELSE IF ~npConfig.Service.isNil /\ ~selector.isNil /\ svcLookup.err /= NoError
        THEN [opts |-> <<>>, err |-> svcLookup.err]
        ELSE [opts |-> urlOpts \o svcOpts, err |-> NoError]

\* the exporter options Apply collects for a configuration, or the error of
\* the first egress lookup that fails
ExporterOptions(npConfig, selector) ==
    LET urlLookup == EgressLookup(selector, "ControlPlane")
        urlOpts ==
            IF npConfig.URL.isNil THEN <<>>
            ELSE <<WithAddress(npConfig.URL.v)>>
                 \o (IF selector.isNil THEN <<>>
                     ELSE <<WithGRPCDialOption(urlLookup.dialer)>>)
        svcLookup == EgressLookup(selector, "Cluster")
        port == IF npConfig.Service.Port.isNil THEN 55680 ELSE npConfig.Service.Port.v
        svcOpts ==
            IF npConfig.Service.isNil THEN <<>>
            ELSE <<WithAddress(ServiceAddress(npConfig.Service.Name,
                                              npConfig.Service.Namespace, port))>>
                 \o (IF selector.isNil THEN <<>>
                     ELSE <<WithGRPCDialOption(svcLookup.dialer)>>)
    IN  IF ~npConfig.URL.isNil /\ ~selector.isNil /\ urlLookup.err /= NoError
        THEN [opts |-> <<>>, err |-> urlLookup.err]
        ELSE IF ~npConfig.Service.isNil /\ ~selector.isNil /\ svcLookup.err /= NoError
        THEN [opts |-> <<>>, err |-> svcLookup.err]
        ELSE [opts |-> urlOpts \o svcOpts, err |-> NoError]

\* Apply that initialises tracing without validating the configuration
ApplySkippingValidation(opt, selector, fs) ==
    LET read == ReadOpenTelemetryConfiguration(opt.ConfigFile, fs)
        errs == ValidateOpenTelemetryConfiguration(read.config)
        built == ExporterOptions(read.config, selector)
    IN  IF opt.isNil
        THEN [err |-> NoError, read |-> FALSE, readErr |-> NoError, errs |-> <<>>, inits |-> <<>>]
        ELSE IF read.err /= NoError
        THEN [err |-> <<"failed to read opentelemetry config">> \o read.err,
              read |-> TRUE, readErr |-> read.err, errs |-> <<>>, inits |-> <<>>]
        ELSE IF read.config.isNil
        THEN [err |-> NoError, read |-> TRUE, readErr |-> NoError, errs |-> errs, inits |-> <<>>]
        ELSE IF built.err /= NoError
        THEN [err |-> built.err, read |-> TRUE, readErr |-> NoError, errs |-> errs, inits |-> <<>>]
        ELSE [err |-> NoError, read |-> TRUE, readErr |-> NoError, errs |-> errs,
              inits |-> <<InitTraces("kube-apiserver", built.opts)>>]

\* Apply adds the opentelemetry settings to the global configuration.  The
\* result holds the returned error, the outcome of the read and of the
\* validation, and the InitTraces calls made.
Apply(opt, selector, fs) ==
    LET read == ReadOpenTelemetryConfiguration(opt.ConfigFile, fs)
        errs == ValidateOpenTelemetryConfiguration(read.config)
        built == ExporterOptions(read.config, selector)
    IN  IF opt.isNil
        THEN [err |-> NoError, read |-> FALSE, readErr |-> NoError, errs |-> <<>>, inits |-> <<>>]
        ELSE IF read.err /= NoError
        THEN [err |-> <<"failed to read opentelemetry config">> \o read.err,
              read |-> TRUE, readErr |-> read.err, errs |-> <<>>, inits |-> <<>>]
        ELSE IF Len(errs) > 0
        THEN [err |-> <<"failed to validate opentelemetry configuration">> \o errs,
              read |-> TRUE, readErr |-> NoError, errs |-> errs, inits |-> <<>>]
        ELSE IF read.config.isNil
        THEN [err |-> NoError, read |-> TRUE, readErr |-> NoError, errs |-> errs, inits |-> <<>>]
        ELSE IF built.err /= NoError
        THEN [err |-> built.err, read |-> TRUE, readErr |-> NoError, errs |-> errs, inits |-> <<>>]
        ELSE [err |-> NoError, read |-> TRUE, readErr |-> NoError, errs |-> errs,
              inits |-> <<InitTraces("kube-apiserver", built.opts)>>]

(***************************************************************************)
(* Inputs.                                                                 *)
(***************************************************************************)
IdBytes(n, seed) == [ i \in 1..n |-> (16 * seed + i) % 256 ]

SelCtxA == SpanContext(IdBytes(16, 10), IdBytes(8, 11), 0)

SelCtxB == SpanContext(IdBytes(16, 12), IdBytes(8, 13), 1)

\* a slot text in the layout of the sentinel literal: the two identifiers
\* and, after the last hyphen, a decimal number
GenText(x, g) ==
    HexEncode(x.TraceID) \o <<"-">> \o HexEncode(x.SpanID) \o <<"-">> \o FormatNat(g)

\* the record a writer leaves: the hex-hyphenated text of its span context
\* and its generation at write time
StampRecord(fields, x, generation) ==
    ManagedFieldsEntry(fields, spanContextString(x), generation)

RecordPool ==
    { StampRecord(f, x, g) :
        f \in {Fields({"f:spec"}), Fields({"f:status"})},
        x \in {SelCtxA, SelCtxB}, g \in 0..MaxGen }
    \cup { ManagedFieldsEntry(Fields({"f:metadata", "f:status"}), GenText(SelCtxA, g), g) :
             g \in 0..MaxGen }
    \cup { ManagedFieldsEntry(Fields({"f:spec"}), <<>>, 0),
           ManagedFieldsEntry(Fields({"f:spec"}), <<"7">>, MaxGen),
           ManagedFieldsEntry(FieldsMalformed, GenText(SelCtxB, 0), 0),
           ManagedFieldsEntry(FieldsNil, GenText(SelCtxB, MaxGen), MaxGen),
           ManagedFieldsEntry(Fields({}), GenText(SelCtxB, 1), 1),
           ManagedFieldsEntry(Fields({"f:data", "f:status"}), GenText(SelCtxB, 1), 1) }

RecordLists == UNION { [1..n -> RecordPool] : n \in 0..MaxRecords }

TraceIDs == {ZeroBytes(16), IdBytes(16, 10), IdBytes(16, 12), SentinelContext.TraceID}

SpanIDs == {ZeroBytes(8), IdBytes(8, 11), SentinelContext.SpanID}

CodecContexts == { SpanContext(t, sp, f) : t \in TraceIDs, sp \in SpanIDs, f \in 0..MaxFlags }

Prefix(b, n) == SubSeq(b, 1, IF n < Len(b) THEN n ELSE Len(b))

NotBase64Text == <<"n", "o", "t", "-", "b", "a", "s", "e", "6", "4", "!", "!">>

EncodedTexts ==
    { Base64Encode(Prefix(SpanContextBytes(x), n)) :
        x \in CodecContexts, n \in {0, 1, 16, 24, 25} }
    \cup { Base64Encode(Binary(x)) : x \in CodecContexts }
    \cup { NotBase64Text, <<"A", "A", "A">>, <<"A", "A", "=", "A">>,
           <<"=", "=", "=", "=">>, <<"A", "A", "=", "=", "\n">> }

EmbedContexts ==
    { EmptySpanContext }
    \cup { SpanContext(t, IdBytes(8, 11), f) :
              t \in {IdBytes(16, 10), IdBytes(16, 12), SentinelContext.TraceID},
              f \in 0..MaxFlags }

ContextArgs ==
    { [hasSpan |-> FALSE, spanContext |-> EmptySpanContext] }
    \cup { [hasSpan |-> TRUE, spanContext |-> x] : x \in EmbedContexts }

InitialAnnotations ==
    { NilAnnotations,
      Annotations([k \in {} |-> <<>>]),
      Annotations([k \in {"app"} |-> <<"w", "e", "b">>]),
      Annotations([k \in {"app", "tier"} |-> IF k = "app" THEN <<"w", "e", "b">>
                                                          ELSE <<"d", "b">>]) }

(***************************************************************************)
(* State machine.                                                          *)
(*                                                                         *)
(* managedFields, obv : the snapshot handed to WithObject                  *)
(* annotations        : the annotation map of the traced object            *)
(* lastOp             : the last attach or detach invoked on the object    *)
(* ret                : the last call and what it returned                 *)
(***************************************************************************)
\* the parts of the state a specification does not use stay as constructed
AdapterIdle == adapter = [span |-> httpTraceSpan(EmptySpanContext),
                          wrapped |-> EmptySpanContext, calls |-> 0]

ConfigIdle ==
    /\ config = NilConfig
    /\ o = NilOptions
    /\ files = <<>>
    /\ es = NilEgressSelector
    /\ tracing = [applies |-> 0, calls |-> <<>>]

TracerIdle ==
    /\ requests = <<>>
    /\ queue = <<>>
    /\ exported = {}

NoCall == [op |-> "none"]

NoOp == [kind |-> "none", spanContext |-> EmptySpanContext]

InitSelector ==
    /\ managedFields \in RecordLists
    /\ obv \in 0..MaxGen
    /\ annotations = NilAnnotations
    /\ lastOp = NoOp
    /\ ret = NoCall
    /\ AdapterIdle
    /\ ConfigIdle
    /\ TracerIdle

WithObjectCall ==
    /\ LET r == WithObject(managedFields, obv)
       IN  ret' = [op |-> "WithObject", panic |-> r.panic,
                   spanContext |-> r.spanContext, from |-> r.from]
    /\ UNCHANGED <<objectVars, adapterVars, configVars, tracerVars>>

\* IsStatusOnly applied to one of the records of the object
IsStatusOnlyCall ==
    /\ \E i \in DOMAIN managedFields :
         LET r == IsStatusOnly(managedFields[i])
         IN  ret' = [op |-> "IsStatusOnly", field |-> managedFields[i],
                     panic |-> r.panic, value |-> r.value]
    /\ UNCHANGED <<objectVars, adapterVars, configVars, tracerVars>>

NextSelector == WithObjectCall \/ IsStatusOnlyCall

SpecSelector == InitSelector /\ [][NextSelector]_vars

InitCodec ==
    /\ managedFields = <<>>
    /\ obv = 0
    /\ annotations = NilAnnotations
    /\ lastOp = NoOp
    /\ ret = NoCall
    /\ AdapterIdle
    /\ ConfigIdle
    /\ TracerIdle

decodeSpanContextCall ==
    /\ \E text \in EncodedTexts :
         LET r == decodeSpanContext(text)
         IN  ret' = [op |-> "decodeSpanContext", in |-> text, panic |-> r.panic,
                     spanContext |-> r.spanContext, err |-> r.err]
    /\ UNCHANGED <<objectVars, adapterVars, configVars, tracerVars>>

\* a span context rendered by spanContextString and parsed back
stringToSpanContextCall ==
    /\ \E x \in CodecContexts :
         LET r == stringToSpanContext(spanContextString(x))
         IN  ret' = [op |-> "stringToSpanContext", in |-> x, panic |-> r.panic,
                     spanContext |-> r.spanContext]
    /\ UNCHANGED <<objectVars, adapterVars, configVars, tracerVars>>

NextCodec == decodeSpanContextCall \/ stringToSpanContextCall

SpecCodec == InitCodec /\ [][NextCodec]_vars

InitEmbedder ==
    /\ managedFields = <<>>
    /\ obv = 0
    /\ annotations \in InitialAnnotations
    /\ lastOp = NoOp
    /\ ret = NoCall
    /\ AdapterIdle
    /\ ConfigIdle
    /\ TracerIdle

EncodeContextIntoObjectCall ==
    \E ctx \in ContextArgs :
        LET r == EncodeContextIntoObject(ctx, annotations)
        IN  /\ annotations' = r.annotations
            /\ ret' = [op |-> "EncodeContextIntoObject", panic |-> r.panic,
                       hasSpan |-> ctx.hasSpan]
            /\ lastOp' = IF ctx.hasSpan
                         THEN [kind |-> "attach", spanContext |-> ctx.spanContext]
                         ELSE lastOp
            /\ UNCHANGED <<managedFields, obv, adapterVars, configVars, tracerVars>>

RemoveSpanContextFromObjectCall ==
    LET r == RemoveSpanContextFromObject(annotations)
    IN  /\ annotations' = r.annotations
        /\ ret' = [op |-> "RemoveSpanContextFromObject", panic |-> r.panic]
        /\ lastOp' = [kind |-> "detach", spanContext |-> EmptySpanContext]
        /\ UNCHANGED <<managedFields, obv, adapterVars, configVars, tracerVars>>

spanContextFromObjectCall ==
    /\ LET r == spanContextFromObject(annotations)
       IN  ret' = [op |-> "spanContextFromObject", spanContext |-> r.spanContext,
                   ok |-> r.ok]
    /\ UNCHANGED <<objectVars, adapterVars, configVars, tracerVars>>

NextEmbedder ==
    \/ EncodeContextIntoObjectCall
    \/ RemoveSpanContextFromObjectCall
    \/ spanContextFromObjectCall

SpecEmbedder == InitEmbedder /\ [][NextEmbedder]_vars

\* the values the trace annotation of an object can hold
AnnotationTexts ==
    { <<>>, NotBase64Text, <<"A", "A", "=", "A">> }
    \cup { Base64Encode(Prefix(Binary(x), n)) : x \in EmbedContexts, n \in {1, 18, 27, 29} }
    \cup { Base64Encode(Prefix(SpanContextBytes(x), n)) : x \in EmbedContexts, n \in {24, 25} }

ReaderAnnotations ==
    InitialAnnotations
    \cup { Annotations([k \in {spanContextAnnotationKey} |-> t]) : t \in AnnotationTexts }

InitReader ==
    /\ managedFields = <<>>
    /\ obv = 0
    /\ annotations \in ReaderAnnotations
    /\ lastOp = NoOp
    /\ ret = NoCall
    /\ AdapterIdle
    /\ ConfigIdle
    /\ TracerIdle

spanContextFromAnnotationsCall ==
    /\ \E ctx \in ContextArgs :
         ret' = [op |-> "spanContextFromAnnotations", in |-> ctx,
                 out |-> spanContextFromAnnotations(ctx, annotations)]
    /\ UNCHANGED <<objectVars, adapterVars, configVars, tracerVars>>

StringSpanContextFromObjectCall ==
    /\ ret' = [op |-> "StringSpanContextFromObject",
               text |-> StringSpanContextFromObject(annotations)]
    /\ UNCHANGED <<objectVars, adapterVars, configVars, tracerVars>>

NextReader ==
    \/ spanContextFromAnnotationsCall
    \/ StringSpanContextFromObjectCall
    \/ spanContextFromObjectCall

SpecReader == InitReader /\ [][NextReader]_vars

(***************************************************************************)
(* The passive span adapter: a span is built around a context and its      *)
(* methods are called in any order.                                        *)
(***************************************************************************)
InitAdapter ==
    /\ managedFields = <<>>
    /\ obv = 0
    /\ annotations = NilAnnotations
    /\ lastOp = NoOp
    /\ ret = NoCall
    /\ \E c \in CodecContexts :
          adapter = [span |-> httpTraceSpan(c), wrapped |-> c, calls |-> 0]
    /\ ConfigIdle
    /\ TracerIdle

\* a recording method is called on the span; the receiver is a copy, and
\* what the method leaves of it is stored back
EndCall ==
    /\ adapter.calls < MaxCalls
    /\ adapter' = [adapter EXCEPT !.span = End(adapter.span), !.calls = @ + 1]
    /\ ret' = [op |-> "End"]
    /\ UNCHANGED <<objectVars, configVars, tracerVars>>

AddEventCall ==
    /\ adapter.calls < MaxCalls
    /\ adapter' = [adapter EXCEPT !.span = AddEvent(adapter.span), !.calls = @ + 1]
    /\ ret' = [op |-> "AddEvent"]
    /\ UNCHANGED <<objectVars, configVars, tracerVars>>

AddEventWithTimestampCall ==
    /\ adapter.calls < MaxCalls
    /\ adapter' = [adapter EXCEPT !.span = AddEventWithTimestamp(adapter.span), !.calls = @ + 1]
    /\ ret' = [op |-> "AddEventWithTimestamp"]
    /\ UNCHANGED <<objectVars, configVars, tracerVars>>

RecordErrorCall ==
    /\ adapter.calls < MaxCalls
    /\ adapter' = [adapter EXCEPT !.span = RecordError(adapter.span), !.calls = @ + 1]
    /\ ret' = [op |-> "RecordError"]
    /\ UNCHANGED <<objectVars, configVars, tracerVars>>

SetStatusCall ==
    /\ adapter.calls < MaxCalls
    /\ adapter' = [adapter EXCEPT !.span = SetStatus(adapter.span), !.calls = @ + 1]
    /\ ret' = [op |-> "SetStatus"]
    /\ UNCHANGED <<objectVars, configVars, tracerVars>>

SetNameCall ==
    /\ adapter.calls < MaxCalls
    /\ adapter' = [adapter EXCEPT !.span = SetName(adapter.span), !.calls = @ + 1]
    /\ ret' = [op |-> "SetName"]
    /\ UNCHANGED <<objectVars, configVars, tracerVars>>

SetAttributesCall ==
    /\ adapter.calls < MaxCalls
    /\ adapter' = [adapter EXCEPT !.span = SetAttributes(adapter.span), !.calls = @ + 1]
    /\ ret' = [op |-> "SetAttributes"]
    /\ UNCHANGED <<objectVars, configVars, tracerVars>>

SetAttributeCall ==
    /\ adapter.calls < MaxCalls
    /\ adapter' = [adapter EXCEPT !.span = SetAttribute(adapter.span), !.calls = @ + 1]
    /\ ret' = [op |-> "SetAttribute"]
    /\ UNCHANGED <<objectVars, configVars, tracerVars>>

IsRecordingCall ==
    /\ ret' = [op |-> "IsRecording", value |-> IsRecording(adapter.span)]
    /\ UNCHANGED <<objectVars, adapterVars, configVars, tracerVars>>

SpanContextCall ==
    /\ ret' = [op |-> "SpanContext", spanContext |-> SpanContextOf(adapter.span)]
    /\ UNCHANGED <<objectVars, adapterVars, configVars, tracerVars>>

NextAdapter ==
    \/ EndCall
    \/ AddEventCall
    \/ AddEventWithTimestampCall
    \/ RecordErrorCall
    \/ SetStatusCall
    \/ SetNameCall
    \/ SetAttributesCall
    \/ SetAttributeCall
    \/ IsRecordingCall
    \/ SpanContextCall

SpecAdapter == InitAdapter /\ [][NextAdapter]_vars

(***************************************************************************)
(* The exporter configuration: a configuration is validated and defaulted  *)
(* in any order.                                                           *)
(***************************************************************************)
\* "http://a:1", ":bad", "%zz" and "1:2"; url.Parse accepts the first only
URLTexts ==
    { defaultURL,
      << "h", "t", "t", "p", ":", "/", "/", "a", ":", "1" >>,
      << ":", "b", "a", "d" >>,
      << "%", "z", "z" >>,
      << "1", ":", "2" >> }

ParsableURLTexts ==
    { defaultURL, << "h", "t", "t", "p", ":", "/", "/", "a", ":", "1" >> }

ServiceNames == { <<>>, << "o", "t", "e", "l" >> }

Namespaces == { <<>>, << "k", "s" >> }

Ports == { NilPort, PortPtr(defaultPort), PortPtr(4317) }

URLPtrs == { NilURL } \cup { URLPtr(u) : u \in URLTexts }

ServiceReferences ==
    { NilService }
    \cup { ServiceReference(n, ns, p) : n \in ServiceNames, ns \in Namespaces, p \in Ports }

Configs ==
    { NilConfig }
    \cup { OpenTelemetryClientConfiguration(u, sv) : u \in URLPtrs, sv \in ServiceReferences }

InitConfig ==
    /\ managedFields = <<>>
    /\ obv = 0
    /\ annotations = NilAnnotations
    /\ lastOp = NoOp
    /\ ret = NoCall
    /\ AdapterIdle
    /\ config \in Configs
    /\ o = NilOptions
    /\ files = <<>>
    /\ es = NilEgressSelector
    /\ tracing = [applies |-> 0, calls |-> <<>>]
    /\ TracerIdle

ValidateOpenTelemetryConfigurationCall ==
    /\ ret' = [op |-> "ValidateOpenTelemetryConfiguration",
               config |-> config,
               errs |-> ValidateOpenTelemetryConfiguration(config)]
    /\ UNCHANGED <<objectVars, adapterVars, configVars, tracerVars>>

\* the configuration is defaulted in place
DefaultOpenTelemetryConfigurationCall ==
    /\ config' = DefaultOpenTelemetryConfiguration(config)
    /\ ret' = [op |-> "DefaultOpenTelemetryConfiguration",
               before |-> config,
               after |-> config']
    /\ UNCHANGED <<objectVars, adapterVars, o, files, es, tracing, tracerVars>>

NextConfig ==
    \/ ValidateOpenTelemetryConfigurationCall
    \/ DefaultOpenTelemetryConfigurationCall

SpecConfig == InitConfig /\ [][NextConfig]_vars

(***************************************************************************)
(* The options: a configuration file is named (or not), read, checked for  *)
(* existence, and applied.                                                 *)
(***************************************************************************)
GoodURL == URLPtr(defaultURL)

GoodService(port) == ServiceReference(<< "o", "t", "e", "l" >>, << "k", "s" >>, port)

Kind == "OpenTelemetryClientConfiguration"

\* the documents the file "otel.yaml" may hold: a directory, broken YAML, an
\* empty file, another kind, and configurations that are valid and invalid
Documents ==
    { Document(FALSE, FALSE, "", NilURL, NilService),
      Document(TRUE, FALSE, "", NilURL, NilService),
      Document(TRUE, TRUE, "", NilURL, NilService),
      Document(TRUE, TRUE, "DaemonSet", GoodURL, NilService),
      Document(TRUE, TRUE, Kind, NilURL, NilService),
      Document(TRUE, TRUE, Kind, GoodURL, NilService),
      Document(TRUE, TRUE, Kind, URLPtr(<< ":", "b", "a", "d" >>), NilService),
      Document(TRUE, TRUE, Kind, NilURL, GoodService(NilPort)),
      Document(TRUE, TRUE, Kind, NilURL, GoodService(PortPtr(4317))),
      Document(TRUE, TRUE, Kind, NilURL,
               ServiceReference(<<>>, << "k", "s" >>, NilPort)),
      Document(TRUE, TRUE, Kind, GoodURL, GoodService(NilPort)) }

Paths == { "", "otel.yaml", "missing.yaml" }

FileSystems == { [ p \in {"otel.yaml"} |-> doc ] : doc \in Documents }

OptionsPool == { NilOptions } \cup { OpenTelemetryOptions(p) : p \in Paths }

EgressSelectors ==
    { NilEgressSelector, EgressSelector({}),
      EgressSelector({"ControlPlane"}), EgressSelector({"Cluster"}) }

InitOptions ==
    /\ managedFields = <<>>
    /\ obv = 0
    /\ annotations = NilAnnotations
    /\ lastOp = NoOp
    /\ ret = NoCall
    /\ AdapterIdle
    /\ config = NilConfig
    /\ o \in OptionsPool
    /\ files \in FileSystems
    /\ es \in EgressSelectors
    /\ tracing = [applies |-> 0, calls |-> <<>>]
    /\ TracerIdle

ReadOpenTelemetryConfigurationCall ==
    \E configFilePath \in Paths :
        LET read == ReadOpenTelemetryConfiguration(configFilePath, files)
        IN  /\ ret' = [op |-> "ReadOpenTelemetryConfiguration",
                       path |-> configFilePath,
                       config |-> read.config,
                       err |-> read.err]
            /\ config' = read.config
            /\ UNCHANGED <<objectVars, adapterVars, o, files, es, tracing, tracerVars>>

OptionsValidateCall ==
    /\ ret' = [op |-> "Validate", errs |-> OptionsValidate(o, files)]
    /\ UNCHANGED <<objectVars, adapterVars, configVars, tracerVars>>

\* Apply runs to its return; the InitTraces calls it makes are recorded
ApplyCall ==
    /\ tracing.applies < MaxApplies
    /\ LET applied == Apply(o, es, files)
       IN  /\ ret' = [op |-> "Apply",
                      err |-> applied.err,
                      read |-> applied.read,
                      readErr |-> applied.readErr,
                      errs |-> applied.errs,
                      inits |-> applied.inits]
           /\ tracing' = [applies |-> tracing.applies + 1,
                          calls |-> tracing.calls \o applied.inits]
    /\ UNCHANGED <<objectVars, adapterVars, config, o, files, es, tracerVars>>

NextOptions ==
    \/ ReadOpenTelemetryConfigurationCall
    \/ OptionsValidateCall
    \/ ApplyCall

SpecOptions == InitOptions /\ [][NextOptions]_vars

(***************************************************************************)
(* The request handler.  WithTracing wraps the handler so that each        *)
(* request starts a span whose parent is the context of the traceparent    *)
(* header; the provider set up by InitTraces decides whether to sample it, *)
(* and its batcher hands the sampled spans that ended to the exporter.     *)
(***************************************************************************)
IsValid(spanContext) ==
    /\ spanContext.TraceID /= ZeroBytes(16)
    /\ spanContext.SpanID /= ZeroBytes(8)

\* the sampled bit is the lowest bit of the trace flags
IsSampled(spanContext) == spanContext.TraceFlags % 2 = 1

\* the decision of the provider's sampler for a span under a parent:
\* ParentBased follows a valid parent and asks its root sampler otherwise
ShouldSample(provider, parent) ==
    CASE provider.sampler = "ParentBased(NeverSample)" ->
             IF IsValid(parent) THEN IsSampled(parent) ELSE FALSE
      [] provider.sampler = "AlwaysSample" -> TRUE
      [] OTHER -> FALSE

\* the span started for the n-th request: a child of a valid parent keeps
\* its trace ID, any other span starts a trace
StartSpan(provider, parent, n) ==
    [TraceID |-> IF IsValid(parent) THEN parent.TraceID ELSE IdBytes(16, 50 + n),
     SpanID |-> IdBytes(8, 40 + n),
     ParentSpanID |-> IF IsValid(parent) THEN parent.SpanID ELSE ZeroBytes(8),
     sampled |-> ShouldSample(provider, parent)]

(***************************************************************************)
(* The request handler of a component whose tracing was initialised:       *)
(* requests arrive with or without a parent context, are served, and the   *)
(* batcher exports the spans that ended.                                   *)
(***************************************************************************)
\* what a traceparent header may carry: nothing, a context without trace
\* ID, the context of one caller under each value of the flags, and the
\* sampled context of another caller
ParentContexts ==
    { EmptySpanContext, SpanContext(ZeroBytes(16), IdBytes(8, 11), 1),
      SpanContext(IdBytes(16, 12), IdBytes(8, 13), 1) }
    \cup { SpanContext(IdBytes(16, 10), IdBytes(8, 11), f) : f \in 0..MaxFlags }

InitTracer ==
    /\ managedFields = <<>>
    /\ obv = 0
    /\ annotations = NilAnnotations
    /\ lastOp = NoOp
    /\ ret = NoCall
    /\ AdapterIdle
    /\ config = NilConfig
    /\ o = NilOptions
    /\ files = <<>>
    /\ es = NilEgressSelector
    /\ tracing = [applies |-> 1,
                  calls |-> <<InitTraces("kube-apiserver", <<WithAddress(defaultURL)>>)>>]
    /\ TracerIdle

\* a request arrives: the handler extracts the parent and starts the span
ServeHTTP ==
    /\ Len(requests) < MaxRequests
    /\ \E parent \in ParentContexts :
          /\ requests' = Append(requests,
                 [parent |-> parent,
                  span |-> StartSpan(tracing.calls[1], parent, Len(requests) + 1),
                  phase |-> "serving"])
          /\ ret' = [op |-> "ServeHTTP", parent |-> parent]
    /\ UNCHANGED <<objectVars, adapterVars, configVars, queue, exported>>

\* the wrapped handler returns and the span ends; the batcher queues it
\* when it is sampled
SpanEnd ==
    \E i \in DOMAIN requests :
        /\ requests[i].phase = "serving"
        /\ requests' = [requests EXCEPT ![i].phase = "done"]
        /\ queue' = IF requests[i].span.sampled
                    THEN Append(queue, requests[i].span)
                    ELSE queue
        /\ ret' = [op |-> "End", request |-> i]
        /\ UNCHANGED <<objectVars, adapterVars, configVars, exported>>

\* the batcher hands the queued spans to the exporter, which delivers them
\* to the collector
ExportSpans ==
    /\ queue /= <<>>
    /\ exported' = exported \cup Range(queue)
    /\ queue' = <<>>
    /\ ret' = [op |-> "ExportSpans"]
    /\ UNCHANGED <<objectVars, adapterVars, configVars, requests>>

NextTracer ==
    \/ ServeHTTP
    \/ SpanEnd
    \/ ExportSpans

\* the handler returns and the batcher's goroutine runs
SpecTracer ==
    InitTracer /\ [][NextTracer]_vars /\ WF_vars(SpanEnd) /\ WF_vars(ExportSpans)

(***************************************************************************)
(* The snapshot: WithObject is called again and again on an object whose   *)
(* records and observed generation stay, while its generation counter,     *)
(* its annotations and its name vary from call to call.                    *)
(***************************************************************************)
SnapshotAnnotations ==
    { NilAnnotations,
      Annotations([k \in {spanContextAnnotationKey} |->
                      Base64Encode(SpanContextBytes(SelCtxB))]) }

ObjectNames == { "a", "b" }

\* records of writers of the spec, of the metadata and of the status, one
\* of them ahead of every observed generation, and a record that does not
\* parse
SnapshotRecords ==
    { StampRecord(Fields({"f:spec"}), SelCtxA, 0),
      StampRecord(Fields({"f:status"}), SelCtxB, 1),
      ManagedFieldsEntry(Fields({"f:metadata"}), GenText(SelCtxB, 1), 1),
      ManagedFieldsEntry(Fields({"f:metadata", "f:status"}),
                         GenText(SelCtxA, MaxGen + 1), MaxGen + 1),
      ManagedFieldsEntry(FieldsMalformed, GenText(SelCtxB, 0), 0) }

SnapshotLists == UNION { [1..n -> SnapshotRecords] : n \in 0..MaxRecords }

InitSnapshot ==
    /\ managedFields \in SnapshotLists
    /\ obv \in 0..MaxGen
    /\ annotations = NilAnnotations
    /\ lastOp = NoOp
    /\ ret = NoCall
    /\ AdapterIdle
    /\ ConfigIdle
    /\ TracerIdle

\* ret keeps the object and the outcome of the call before
WithObjectOnCall ==
    /\ \E generation \in {obv, obv + 1}, annots \in SnapshotAnnotations,
          name \in ObjectNames :
         LET meta == Object(managedFields, generation, annots, name)
             r == WithObjectOn(meta, obv)
         IN  /\ ret' = [op |-> "WithObjectOn",
                        meta |-> meta,
                        after |-> r.meta,
                        panic |-> r.panic,
                        spanContext |-> r.spanContext,
                        again |-> ret.op = "WithObjectOn",
                        before |-> IF ret.op = "WithObjectOn"
                                   THEN [meta |-> ret.meta, panic |-> ret.panic,
                                         spanContext |-> ret.spanContext]
                                   ELSE [meta |-> meta, panic |-> r.panic,
                                         spanContext |-> r.spanContext]]
             /\ managedFields' = r.meta.managedFields
             /\ annotations' = r.meta.annotations
    /\ UNCHANGED <<obv, lastOp, adapterVars, configVars, tracerVars>>

NextSnapshot == WithObjectOnCall

SpecSnapshot == InitSnapshot /\ [][NextSnapshot]_vars

(***************************************************************************)
(* The slot shared by the two packages: traceutil attaches and detaches,   *)
(* httptrace reads.                                                        *)
(***************************************************************************)
NextSlot ==
    \/ EncodeContextIntoObjectCall
    \/ RemoveSpanContextFromObjectCall
    \/ spanContextFromAnnotationsCall
    \/ StringSpanContextFromObjectCall

SpecSlot == InitEmbedder /\ [][NextSlot]_vars

(***************************************************************************)
(* Properties of the selector.                                             *)
(***************************************************************************)
\* the writer of record r touched only the status subresource
StatusOnlyWriter(r) == LET so == IsStatusOnly(r) IN ~so.panic /\ so.value

\* the span context the text of record r carries
RecordContext(r) == stringToSpanContext(r.TraceContext).spanContext

FirstIndex(S) == CHOOSE i \in S : \A j \in S : i <= j

\* C1: selection is total: whatever the records (empty or short texts,
\* absent or malformed field ownership) and the observed generation,
\* WithObject returns a context and never panics
SelectionTotal == ret.op = "WithObject" => ~ret.panic

\* C2: the context WithObject returns is never taken from a record whose
\* writer touched only the status subresource, and a list of status-only
\* records yields the sentinel
NeverFromStatusOnly ==
    (ret.op = "WithObject" /\ ~ret.panic) =>
        /\ ret.from /= 0 => ~StatusOnlyWriter(managedFields[ret.from])
        /\ (\A i \in DOMAIN managedFields : StatusOnlyWriter(managedFields[i]))
               => (ret.from = 0 /\ ret.spanContext = SentinelContext)

\* a status-only record that is ahead of the observed generation precedes
\* the record WithObject selected
StatusOnlySkipped ==
    /\ ret.op = "WithObject" /\ ~ret.panic /\ ret.from > 1
    /\ \E i \in 1..(ret.from - 1) :
          /\ StatusOnlyWriter(managedFields[i])
          /\ ParseInt(LastSegment(managedFields[i].TraceContext)) > obv

\* C3: among the records that are not status-only, WithObject returns the
\* context of the first record whose generation is greater than the observed
\* generation if there is one, else that of the first record whose
\* generation equals it
AheadBeforeCurrent ==
    ret.op = "WithObject" =>
        LET eligible == { i \in DOMAIN managedFields : ~StatusOnlyWriter(managedFields[i]) }
            ahead == { i \in eligible : managedFields[i].Generation > obv }
            current == { i \in eligible : managedFields[i].Generation = obv }
        IN  /\ ahead /= {} =>
                (~ret.panic /\ ret.spanContext = RecordContext(managedFields[FirstIndex(ahead)]))
            /\ (ahead = {} /\ current /= {}) =>
                (~ret.panic /\ ret.spanContext = RecordContext(managedFields[FirstIndex(current)]))

\* C4: when the list is empty, or every record is status-only or has a
\* generation lower than the observed one, WithObject returns the sentinel
SentinelWhenNothingEligible ==
    (/\ ret.op = "WithObject"
     /\ \A i \in DOMAIN managedFields :
           \/ StatusOnlyWriter(managedFields[i])
           \/ managedFields[i].Generation < obv)
        => (~ret.panic /\ ret.spanContext = SentinelContext)

\* C5: a non-sentinel context comes from a record whose generation, as
\* stamped by its writer, is not lower than the observed generation
SelectedNotStale ==
    (ret.op = "WithObject" /\ ~ret.panic /\ ret.from /= 0)
        => managedFields[ret.from].Generation >= obv

(***************************************************************************)
(* Properties of the codecs.                                               *)
(***************************************************************************)
\* C6: the hex-hyphenated form round-trips: parsing the text rendered from
\* x yields x, in trace ID, span ID and flags
HexFormRoundTrips ==
    ret.op = "stringToSpanContext" => (~ret.panic /\ ret.spanContext = ret.in)

WithoutLineBreaks(text) == SelectSeq(text, LAMBDA c : c \notin {"\n", "\r"})

\* the text is padded base64: whole quanta, padding only at the very end
WellFormedBase64(text) ==
    LET src == WithoutLineBreaks(text)
    IN  /\ Len(src) % 4 = 0
        /\ \A i \in DOMAIN src :
              \/ src[i] \in Range(Base64Alphabet)
              \/ /\ src[i] = "="
                 /\ i >= Len(src) - 1
                 /\ src[Len(src)] = "="

\* the number of bytes a well-formed base64 text stands for
PayloadLength(text) ==
    LET src == WithoutLineBreaks(text)
    IN  (Len(src) \div 4) * 3 - Cardinality({ i \in DOMAIN src : src[i] = "=" })

\* C10: decodeSpanContext never panics, and on a text that is not valid
\* base64 or whose payload is shorter than the span-context structure it
\* returns an error together with the empty span context
DecodeFailsSoftly ==
    ret.op = "decodeSpanContext" =>
        /\ ~ret.panic
        /\ (~WellFormedBase64(ret.in) \/ PayloadLength(ret.in) < 16 + 8 + 1)
               => (ret.err /= "nil" /\ ret.spanContext = EmptySpanContext)

\* decodeSpanContext was given valid base64 of a payload one byte short
DecodedShortPayload ==
    /\ ret.op = "decodeSpanContext"
    /\ WellFormedBase64(ret.in)
    /\ PayloadLength(ret.in) = 24
    /\ ret.err /= "nil"

(***************************************************************************)
(* Properties of the annotation slot.                                      *)
(***************************************************************************)
\* C7: the annotation form round-trips: reading an object on which x was
\* just attached returns (x, true)
AnnotationFormRoundTrips ==
    /\ (ret.op = "EncodeContextIntoObject" /\ lastOp.kind = "attach") => ~ret.panic
    /\ (ret.op = "spanContextFromObject" /\ lastOp.kind = "attach")
          => (ret.ok /\ ret.spanContext = lastOp.spanContext)

\* C8: for an object with or without an annotation map, attach succeeds and
\* a read returns the context of the most recent attach when no detach
\* followed it, and absent after a detach or when nothing was attached
ReadReturnsLastAttach ==
    /\ ret.op = "EncodeContextIntoObject" => ~ret.panic
    /\ ret.op = "spanContextFromObject" =>
          IF lastOp.kind = "attach"
          THEN ret.ok /\ ret.spanContext = lastOp.spanContext
          ELSE ~ret.ok

\* C9: detach succeeds; on an object without the trace annotation (or with
\* no annotations at all) it leaves the annotations as they were, and a
\* second detach leaves the object as the first one left it
DetachIdempotent ==
    [][ret'.op = "RemoveSpanContextFromObject" =>
          /\ ~ret'.panic
          /\ TraceAnnotationKey \notin DOMAIN annotations.m => annotations' = annotations
          /\ ret.op = "RemoveSpanContextFromObject" => annotations' = annotations]_vars

\* detach was applied to an object that has no annotations at all
DetachedWithoutAnnotations ==
    /\ ret.op = "RemoveSpanContextFromObject"
    /\ lastOp.kind = "detach"
    /\ annotations.isNil

(***************************************************************************)
(* Properties of the annotation readers.                                   *)
(***************************************************************************)
\* the trace annotation of the object is absent, empty, or undecodable: not
\* valid base64 or a payload shorter than a structure of size bytes
NoContextPresent(size) ==
    \/ spanContextAnnotationKey \notin DOMAIN annotations.m
    \/ LET v == annotations.m[spanContextAnnotationKey]
       IN  v = <<>> \/ ~WellFormedBase64(v) \/ PayloadLength(v) < size

\* C11: an empty, an absent and an undecodable annotation look the same to
\* every reader: spanContextFromAnnotations returns the caller's context
\* unchanged, StringSpanContextFromObject the empty text and
\* spanContextFromObject not-found
ReadersCollapseToNoContext ==
    /\ (ret.op = "spanContextFromAnnotations" /\ NoContextPresent(16 + 8 + 1))
          => ret.out = ret.in
    /\ (ret.op = "StringSpanContextFromObject" /\ NoContextPresent(16 + 8 + 1))
          => ret.text = <<>>
    /\ (ret.op = "spanContextFromObject" /\ NoContextPresent(1 + 17 + 9 + 2))
          => ~ret.ok

\* C20: IsStatusOnly is true exactly for a record whose owned top-level
\* fields are {status}: false when the writer owns any other top-level
\* field and when no field ownership is recorded
StatusOnlyExactly ==
    (ret.op = "IsStatusOnly" /\ (ret.field.FieldsV1.isNil \/ ret.field.FieldsV1.valid))
        => /\ ~ret.panic
           /\ ret.value = (/\ ~ret.field.FieldsV1.isNil
                           /\ ret.field.FieldsV1.keys = {"f:status"})


(***************************************************************************)
(* Properties of the passive span adapter.                                 *)
(***************************************************************************)
\* C12: the passive span adapter is inert: whatever recording calls were
\* made on an httpTraceSpan wrapping context c, IsRecording returns false
\* and SpanContext returns exactly c.
AdapterInert ==
    /\ ret.op = "IsRecording" => ret.value = FALSE
    /\ ret.op = "SpanContext" => ret.spanContext = adapter.wrapped
    /\ adapter.span = httpTraceSpan(adapter.wrapped)

\* IsRecording was asked of a span around a real context after recording calls
AskedAfterRecording ==
    /\ ret.op = "IsRecording"
    /\ adapter.calls > 0
    /\ adapter.wrapped /= EmptySpanContext
    /\ adapter.wrapped.TraceFlags = 1


(***************************************************************************)
(* Properties of the exporter configuration.                               *)
(***************************************************************************)
\* C13: ValidateOpenTelemetryConfiguration returns at least one error for
\* every configuration in which both Service and URL are set, whatever their
\* values, and no error for a nil configuration.
BothSetRejected ==
    ret.op = "ValidateOpenTelemetryConfiguration" =>
        /\ (~ret.config.isNil /\ ~ret.config.Service.isNil /\ ~ret.config.URL.isNil)
               => Len(ret.errs) >= 1
        /\ ret.config.isNil => ret.errs = <<>>

\* a configuration whose Service and URL are each valid on their own, and
\* both set, was rejected
ValidPartsBothSetRejected ==
    /\ ret.op = "ValidateOpenTelemetryConfiguration"
    /\ ~ret.config.isNil
    /\ ~ret.config.Service.isNil
    /\ Len(ret.config.Service.Name) > 0
    /\ Len(ret.config.Service.Namespace) > 0
    /\ ~ret.config.URL.isNil
    /\ ret.config.URL.v = defaultURL
    /\ Len(ret.errs) = 1

\* C14: with Service set and URL unset, ValidateOpenTelemetryConfiguration
\* returns an error exactly when the service name or the service namespace is
\* empty, whatever the port; with only a parsable URL set it returns no error.
ServiceNeedsNameAndNamespace ==
    (ret.op = "ValidateOpenTelemetryConfiguration" /\ ~ret.config.isNil) =>
        /\ (~ret.config.Service.isNil /\ ret.config.URL.isNil)
               => (Len(ret.errs) > 0
                      <=> (\/ ret.config.Service.Name = <<>>
                           \/ ret.config.Service.Namespace = <<>>))
        /\ (/\ ret.config.Service.isNil
            /\ ~ret.config.URL.isNil
            /\ ret.config.URL.v \in ParsableURLTexts)
               => ret.errs = <<>>

\* a Service with a name and a port but no namespace was rejected
NamespaceMissingRejected ==
    /\ ret.op = "ValidateOpenTelemetryConfiguration"
    /\ ~ret.config.isNil
    /\ ret.config.URL.isNil
    /\ ~ret.config.Service.isNil
    /\ Len(ret.config.Service.Name) > 0
    /\ ret.config.Service.Namespace = <<>>
    /\ ~ret.config.Service.Port.isNil
    /\ Len(ret.errs) = 1

\* C15: DefaultOpenTelemetryConfiguration sets URL to localhost:55680 exactly
\* when both URL and Service are unset, sets Service.Port to 55680 exactly
\* when Service is set with no port, never changes a URL or a port that is
\* already set, does nothing on a nil configuration, and applied twice gives
\* what it gives applied once.
DefaultsOnlyUnset ==
    ret.op = "DefaultOpenTelemetryConfiguration" =>
        LET before == ret.before
            after == ret.after
        IN  /\ before.isNil => after = before
            /\ ~before.isNil =>
                  /\ ~after.isNil
                  /\ IF before.URL.isNil /\ before.Service.isNil
                     THEN after.URL = URLPtr(defaultURL)
                     ELSE after.URL = before.URL
                  /\ after.Service.isNil = before.Service.isNil
                  /\ ~before.Service.isNil =>
                        /\ after.Service.Name = before.Service.Name
                        /\ after.Service.Namespace = before.Service.Namespace
                        /\ IF before.Service.Port.isNil
                           THEN after.Service.Port = PortPtr(55680)
                           ELSE after.Service.Port = before.Service.Port
            /\ defaultURL = << "l", "o", "c", "a", "l", "h", "o", "s", "t", ":",
                               "5", "5", "6", "8", "0" >>
            /\ DefaultOpenTelemetryConfiguration(after) = after
            /\ config = after

\* a configuration with a Service without port and no URL was defaulted
ServicePortDefaulted ==
    /\ ret.op = "DefaultOpenTelemetryConfiguration"
    /\ ~ret.before.isNil
    /\ ret.before.URL.isNil
    /\ ~ret.before.Service.isNil
    /\ ret.before.Service.Port.isNil
    /\ ret.after.Service.Port = PortPtr(55680)
    /\ ret.after.URL.isNil


(***************************************************************************)
(* Properties of the options.                                              *)
(***************************************************************************)
\* the document at a path cannot be turned into a configuration
Unusable(path) ==
    \/ path = ""
    \/ path \notin DOMAIN files
    \/ ~files[path].readable
    \/ ~files[path].wellFormed
    \/ files[path].Kind /= "OpenTelemetryClientConfiguration"

\* C16: ReadOpenTelemetryConfiguration returns a nil configuration together
\* with an error whenever the path is empty, the file cannot be read, the
\* content is malformed or the declared kind is not
\* OpenTelemetryClientConfiguration (an empty file counts as kind ""); it
\* never returns both a configuration and an error, and on success the
\* configuration carries the URL and Service of the document.
ReadAllOrNothing ==
    ret.op = "ReadOpenTelemetryConfiguration" =>
        /\ Unusable(ret.path) => (ret.config.isNil /\ ret.err /= NoError)
        /\ ~(~ret.config.isNil /\ ret.err /= NoError)
        /\ ret.err = NoError =>
              /\ ~ret.config.isNil
              /\ ret.config.URL = files[ret.path].URL
              /\ ret.config.Service = files[ret.path].Service

\* a readable, well-formed document of another kind was refused
OtherKindRefused ==
    /\ ret.op = "ReadOpenTelemetryConfiguration"
    /\ ret.path \in DOMAIN files
    /\ files[ret.path].readable
    /\ files[ret.path].wellFormed
    /\ files[ret.path].Kind = "DaemonSet"
    /\ ret.config.isNil
    /\ ret.err /= NoError

\* an egress lookup Apply needs for the configuration in the file fails
LookupFails ==
    /\ ~es.isNil
    /\ o.ConfigFile \in DOMAIN files
    /\ \/ ~files[o.ConfigFile].URL.isNil /\ "ControlPlane" \in es.failing
       \/ ~files[o.ConfigFile].Service.isNil /\ "Cluster" \in es.failing

NoFileNoTracing ==
    (~o.isNil /\ o.ConfigFile = "") =>
        /\ ret.op = "Validate" => ret.errs = <<>>
        /\ ret.op = "Apply" => (ret.err = NoError /\ ret.inits = <<>>)


(***************************************************************************)
(* Properties of the request handler.                                      *)
(***************************************************************************)
SampledParent(i) ==
    /\ i \in DOMAIN requests
    /\ IsValid(requests[i].parent)
    /\ IsSampled(requests[i].parent)

ChildExported(i) ==
    /\ i \in DOMAIN requests
    /\ \E span \in exported :
          /\ span.TraceID = requests[i].parent.TraceID
          /\ span.ParentSpanID = requests[i].parent.SpanID
          /\ span.SpanID = requests[i].span.SpanID

NoOwnSampling ==
    /\ \A i \in DOMAIN requests :
          ~SampledParent(i) =>
              /\ ~requests[i].span.sampled
              /\ \A span \in exported \cup Range(queue) :
                    span.SpanID /= requests[i].span.SpanID
    /\ \A span \in exported \cup Range(queue) :
          \E i \in DOMAIN requests :
              /\ SampledParent(i)
              /\ span = requests[i].span
              /\ span.TraceID = requests[i].parent.TraceID

Addresses(call) ==
    LET IsAddress(opt) == opt.option = "WithAddress"
        chosen == SelectSeq(call.opts, IsAddress)
    IN  [ k \in DOMAIN chosen |-> chosen[k].value ]

\* C21: every call of InitTraces made by Apply receives at most one exporter
\* address: the configured URL when URL is set, or <name>.<namespace>:<port>
\* when Service is set, with port 55680 when the service port is unset and
\* the configured port otherwise; never a URL address and a service address.
OneExporterAddress ==
    /\ \A k \in DOMAIN tracing.calls : Len(Addresses(tracing.calls[k])) <= 1
    /\ (ret.op = "Apply" /\ ret.inits /= <<>>) =>
          LET doc == files[o.ConfigFile]
              addrs == Addresses(ret.inits[1])
              port == IF doc.Service.Port.isNil THEN 55680 ELSE doc.Service.Port.v
          IN  /\ ~doc.URL.isNil => addrs = <<doc.URL.v>>
              /\ ~doc.Service.isNil =>
                    addrs = << doc.Service.Name \o <<".">> \o doc.Service.Namespace
                                 \o <<":">> \o FormatNat(port) >>
              /\ (doc.URL.isNil /\ doc.Service.isNil) => addrs = <<>>

\* tracing was initialised for a service with a port of its own
ServiceWithPortApplied ==
    /\ ret.op = "Apply"
    /\ Len(ret.inits) = 1
    /\ ~files[o.ConfigFile].Service.isNil
    /\ files[o.ConfigFile].Service.Port = PortPtr(4317)
    /\ Addresses(ret.inits[1]) =
           << << "o", "t", "e", "l", ".", "k", "s", ":", "4", "3", "1", "7" >> >>


SelectedText == IF ret.from = 0 THEN SentinelText
                ELSE managedFields[ret.from].TraceContext

\* C23: the span context injected by WithObject always has trace flags 0,
\* for the sentinel and for every selected record, whatever third segment
\* the record's text carries; only the trace ID and the span ID of the
\* selected text reach the returned context.
InjectedNeverSampled ==
    (ret.op = "WithObject" /\ ~ret.panic) =>
        /\ ret.spanContext.TraceFlags = 0
        /\ ret.spanContext.TraceID = IDFromHex(SubSeq(SelectedText, 1, 32), 16)
        /\ ret.spanContext.SpanID = IDFromHex(SubSeq(SelectedText, 34, 49), 8)

\* a record whose text ends in a third segment other than zero was selected
NonZeroSegmentSelected ==
    /\ ret.op = "WithObject"
    /\ ~ret.panic
    /\ ret.from > 0
    /\ ParseInt(LastSegment(SelectedText)) > 0
    /\ ret.spanContext.TraceID /= ZeroBytes(16)
    /\ ret.spanContext.TraceFlags = 0


(***************************************************************************)
(* Properties of the frame of attach and detach.                           *)
(***************************************************************************)
\* C24: attach and detach touch only the trace annotation key: after
\* encodeSpanContextIntoObject or RemoveSpanContextFromObject every other
\* annotation of the object has the same key and value as before, and
\* EncodeContextIntoObject called with a context that carries no span leaves
\* the annotations entirely unchanged.
OnlyTraceKeyTouched ==
    [][ret'.op \in {"EncodeContextIntoObject", "RemoveSpanContextFromObject"} =>
          /\ (DOMAIN annotations'.m) \ {TraceAnnotationKey}
                 = (DOMAIN annotations.m) \ {TraceAnnotationKey}
          /\ \A k \in (DOMAIN annotations.m) \ {TraceAnnotationKey} :
                annotations'.m[k] = annotations.m[k]
          /\ (ret'.op = "EncodeContextIntoObject" /\ ~ret'.hasSpan)
                 => annotations' = annotations]_vars

\* a context was attached to an object that carries two other annotations
AttachedBesideOthers ==
    /\ ret.op = "EncodeContextIntoObject"
    /\ ret.hasSpan
    /\ ~ret.panic
    /\ DOMAIN annotations.m = {"app", "tier", TraceAnnotationKey}
    /\ annotations.m["app"] = <<"w", "e", "b">>
    /\ annotations.m[TraceAnnotationKey] /= <<>>


(***************************************************************************)
(* Properties of the shared slot.                                          *)
(***************************************************************************)
\* a context with a trace ID was attached last and its annotation is there
Written ==
    /\ lastOp.kind = "attach"
    /\ lastOp.spanContext.TraceID /= ZeroBytes(16)
    /\ TraceAnnotationKey \in DOMAIN annotations.m

\* C25: the annotation writer and the annotation reader agree on the slot:
\* a context x written by encodeSpanContextIntoObject under
\* TraceAnnotationKey is found by httptrace's readers and decodes to the
\* trace ID and the span ID of x.
WriterAndReaderAgree ==
    /\ (ret.op = "spanContextFromAnnotations" /\ Written) =>
          /\ ret.out.hasSpan
          /\ ret.out.spanContext.TraceID = lastOp.spanContext.TraceID
          /\ ret.out.spanContext.SpanID = lastOp.spanContext.SpanID
    /\ (ret.op = "StringSpanContextFromObject" /\ Written) =>
          /\ Len(ret.text) >= 49
          /\ SubSeq(ret.text, 1, 32) = HexEncode(lastOp.spanContext.TraceID)
          /\ SubSeq(ret.text, 34, 49) = HexEncode(lastOp.spanContext.SpanID)

====
